---- MODULE Spec2Model ----
(***************************************************************************)
(* A model of download-manager (sunshowers/rustconf-2023-signals):         *)
(*   command.rs  DownloadArgs::exec (the Orchestrator), worker_fn,         *)
(*               worker_impl (the Worker), download_url_to (the Transfer   *)
(*               Engine)                                                   *)
(*   db.rs       DatabaseTask::run (the State Store Actor),                *)
(*               DbWorkerHandle::update_state                              *)
(*                                                                         *)
(* Every task of the tokio runtime is a process whose position is a pc;    *)
(* every .await of the code is a step.  A poll of worker_impl's select!    *)
(* is one step: it advances `op` by one await when `op` can move, and,     *)
(* when `op` is then still pending, polls receiver.recv() in the same      *)
(* step (PollRecv), exactly as select! polls its second branch after the   *)
(* first returned Pending.                                                 *)
(***************************************************************************)
EXTENDS Naturals, Sequences, FiniteSets, TLC

\* ------------------------------------------------------------------ bounds
MaxTasks == 2          \* most manifest entries in a run of Spec
MaxInterrupts == 2     \* most SIGINTs the environment delivers in a run of Spec
MaxChunks == 1         \* most body chunks a response stream yields in a run of Spec

\* ------------------------------------------------------- program constants
BroadcastCapacity == 16   \* broadcast::channel(16)
DbQueueCapacity == 16     \* mpsc::channel(16)

\* The urls of a manifest, in the order in which a manifest first names them.
UrlOrder == <<"u1", "u2">>
Urls == {UrlOrder[i] : i \in DOMAIN UrlOrder}

\* DownloadState (db.rs) is Downloading or one of the terminal states.
Terminal == {"Completed", "Failed", "Interrupted"}

VARIABLES
    manifest,   \* manifest.downloads: the sequence of entries (their urls)
    intsLeft,   \* SIGINTs the environment may still deliver
    chunkMax,   \* most chunks a response body has in this run
    opc,        \* position of DownloadArgs::exec
    failed,     \* exec's `failed` vector
    outputs,    \* the WorkerOutputs join_next has yielded, in order
    sent,       \* number of CancelMessages sent on the broadcast channel
    worker,     \* per task: the state of worker_fn / worker_impl / download_url_to
    queue,      \* the mpsc queue of DatabaseMessages
    dbpc,       \* position of DatabaseTask::run
    hist        \* per url: the state updates DatabaseTask::run has processed

vars == <<manifest, intsLeft, chunkMax, opc, failed, outputs, sent, worker, queue, dbpc, hist>>

N == Len(manifest)
Spawned == {w \in 1..N : worker[w].pc # "unspawned"}

\* pcs of worker_impl
InUpdate == {"dl_send", "dl_ack", "term_send", "term_ack"}
InEngine == {"request", "create", "loop"}
Running == InUpdate \cup InEngine
Finished == {"done", "joined"}

\* ------------------------------------------------------ destination path
\* An Option is a sequence of at most one element: <<>> is None.
\* A ManifestEntry, as far as the destination depends on it: what
\* entry.url.path_segments() returns -- None for a cannot-be-a-base url,
\* otherwise the path split at '/', at least one segment, the last one empty
\* when the path is empty or ends in '/' -- and entry.file_name.
DefaultEntry == [path_segments |-> << <<"a", "foo.txt">> >>, file_name |-> <<>>]

\* The entries of the manifests of PathSpec: the urls data:x, https://host,
\* https://host/foo.txt, https://host/a/foo.txt, https://host/a/, each
\* without and with a file_name.
Entries ==
    [path_segments : {<<>>, << <<"">> >>, << <<"foo.txt">> >>,
                      << <<"a", "foo.txt">> >>, << <<"a", "">> >>},
     file_name : {<<>>, <<"bar.bin">>}]

\* out_dir, a path as the sequence of its components.
OutDir == <<"out">>

\* Iterator::last()
Last(seq) == IF seq = <<>> THEN <<>> ELSE <<seq[Len(seq)]>>

\* entry.file_name.unwrap_or_else(|| entry.url.path_segments()
\*     .and_then(|segments| segments.last()).unwrap_or("index.html"))
FileNameOf(e) ==
    IF e.file_name # <<>> THEN e.file_name[1]
    ELSE LET last == IF e.path_segments = <<>> THEN <<>> ELSE Last(e.path_segments[1])
         IN IF last = <<>> THEN "index.html" ELSE last[1]

\* Utf8Path::join of a relative name: joining "" leaves the directory itself
\* (with a trailing separator).
Join(dir, name) == IF name = "" THEN dir ELSE Append(dir, name)

\* let out_path = out_dir.join(path);
OutPath(e) == Join(OutDir, FileNameOf(e))

\* The state of a task that was not spawned yet.
NewWorker ==
    [pc |-> "unspawned",
     entry |-> DefaultEntry,    \* the ManifestEntry moved into worker_fn
     out_path |-> <<>>,         \* worker_fn's out_path, once computed
     res |-> "none",            \* what download_url_to returned
     result |-> "none",         \* what worker_impl returned
     cancel_sender |-> TRUE,    \* cancel_sender is Some(..)
     cancel_rx |-> "empty",     \* the oneshot: empty, set, or its receiver dropped
     triggers |-> 0,            \* calls of sender.send(()) on the oneshot
     rxpos |-> 0,               \* broadcast messages this receiver has consumed
     lagged |-> FALSE,          \* recv() returned Err(Lagged): the branch is disabled
     hung |-> FALSE,            \* the network never answers again
     chunks |-> 0,              \* body chunks received
     file |-> "none",           \* the destination file handle: none, open, closed
     buf |-> <<>>,              \* chunks handed to the file, write still in flight
     disk |-> <<>>,             \* chunks written to the file
     flushed |-> FALSE,         \* f.shutdown() completed
     cancelled |-> FALSE,       \* the engine took its cancellation branch
     ack |-> "none",            \* the oneshot of the update in flight
     issued |-> <<>>,           \* the states this worker sent to the database
     recorded |-> <<>>,         \* of these, the ones the database task processed
     late |-> FALSE]            \* a notification was observed after the engine returned

\* ------------------------------------------------------------- broadcast
\* Mutant of Receivers: the receiver is dropped when download_url_to
\* returns, before the terminal update.
Receivers_UntilEngineReturns ==
    {w \in 1..N : worker[w].pc \in Running \ {"term_send", "term_ack"}}

\* Receivers alive: one per spawned worker_impl that has not returned.
Receivers == {w \in 1..N : worker[w].pc \in Running}

\* worker_impl returns x: the receiver, the cancel sender and the database
\* handle are dropped, worker_fn builds the WorkerOutput.
Return(r, x) == [r EXCEPT !.pc = "done", !.result = x]

\* Mutant of PollRecv: the notification ends the select loop, as a `return`
\* in the cancellation branch would.
PollRecv_Returns(r) ==
    IF r.lagged \/ r.rxpos = sent THEN r
    ELSE Return([r EXCEPT !.rxpos = @ + 1, !.cancel_sender = FALSE], "Cancelled")

\* Mutant of PollRecv: a failed sender.send(()) is propagated with `?`
\* instead of being discarded.
PollRecv_SendErrorPropagates(r) ==
    IF r.lagged \/ r.rxpos = sent THEN r
    ELSE IF r.cancel_sender /\ r.cancel_rx = "dropped"
         THEN Return([r EXCEPT !.rxpos = @ + 1, !.cancel_sender = FALSE,
                               !.late = @ \/ r.res # "none"], "ErrTransfer")
         ELSE [r EXCEPT !.rxpos = @ + 1,
                        !.late = @ \/ r.res # "none",
                        !.cancel_sender = FALSE,
                        !.cancel_rx = IF r.cancel_sender /\ @ = "empty"
                                      THEN "set" ELSE @]

\* Mutant of PollRecv: the sender is used where it is, without
\* cancel_sender.take(), on every notification.
PollRecv_NoTake(r) ==
    IF r.lagged \/ r.rxpos = sent THEN r
    ELSE [r EXCEPT !.rxpos = @ + 1,
                   !.late = @ \/ r.res # "none",
                   !.triggers = @ + 1,
                   !.cancel_rx = IF @ = "empty" THEN "set" ELSE @]

\* receiver.recv() polled inside worker_impl's select!, on worker record r.
\* Err(Lagged) does not match `Ok(_)`, which disables the branch for the rest
\* of this select!; the select! then completes only through `op`.
PollRecv(r) ==
    IF r.lagged \/ r.rxpos = sent THEN r
    ELSE IF sent - r.rxpos > BroadcastCapacity
         THEN [r EXCEPT !.lagged = TRUE, !.rxpos = sent - BroadcastCapacity]
         ELSE [r EXCEPT !.rxpos = @ + 1,
                        !.late = @ \/ r.res # "none",
                        !.cancel_sender = FALSE,
                        !.triggers = IF r.cancel_sender THEN @ + 1 ELSE @,
                        !.cancel_rx = IF r.cancel_sender /\ @ = "empty"
                                      THEN "set" ELSE @]

\* One poll of the select! in which `op` moved to record r: when `op` is
\* complete worker_impl returns, otherwise recv() is polled too.
AfterOp(r) == IF r.pc = "done" THEN r ELSE PollRecv(r)

SetWorker(w, r) == worker' = [worker EXCEPT ![w] = AfterOp(r)]

\* ------------------------------------------------------------------ Init
\* Manifests of at most n entries.  Urls are opaque to the program, so one
\* manifest stands for all its renamings: the urls appear in UrlOrder.
UrlIndex(u) == CHOOSE i \in DOMAIN UrlOrder : UrlOrder[i] = u
InOrder(m) ==
    \A i \in DOMAIN m :
        \/ UrlIndex(m[i]) = 1
        \/ \E j \in 1..(i - 1) : UrlIndex(m[j]) >= UrlIndex(m[i]) - 1
Manifests(n) == {m \in UNION {[1..k -> Urls] : k \in 0..n} : InOrder(m)}

InitWith(ms, ints, chunks) ==
    /\ manifest \in ms
    /\ intsLeft = ints
    /\ chunkMax = chunks
    /\ opc = "spawn"
    /\ failed = <<>>
    /\ outputs = <<>>
    /\ sent = 0
    /\ worker = [w \in 1..Len(manifest) |-> NewWorker]
    /\ queue = <<>>
    /\ dbpc = "running"
    /\ hist = [u \in Urls |-> <<>>]

Init == InitWith(Manifests(MaxTasks), MaxInterrupts, MaxChunks)

\* ---------------------------------------------------------- Orchestrator
\* for entry in manifest.downloads { sender.subscribe(); join_set.spawn(..) }
\* worker_fn's first lines, which compute out_path from the task's own
\* arguments, are part of this step.
Spawn ==
    /\ opc = "spawn"
    /\ \E w \in 1..N :
        /\ worker[w].pc = "unspawned"
        /\ \A v \in 1..(w - 1) : worker[v].pc # "unspawned"
        /\ worker' = [worker EXCEPT ![w].pc = "dl_send", ![w].rxpos = sent,
                                    ![w].out_path = OutPath(worker[w].entry)]
    /\ UNCHANGED <<manifest, intsLeft, chunkMax, opc, failed, outputs, sent, queue, dbpc, hist>>

\* std::mem::drop(db_handle), then the wait loop is entered.
DropDbHandle ==
    /\ opc = "spawn"
    /\ Spawned = 1..N
    /\ opc' = "loop"
    /\ UNCHANGED <<manifest, intsLeft, chunkMax, failed, outputs, sent, worker, queue, dbpc, hist>>

IsErr(x) == x \in {"ErrTransfer", "ErrDb"}

\* Mutant of JoinNext: a cancelled download is pushed to `failed` as well.
JoinNext_PushesCancelled(w) ==
    /\ opc = "loop"
    /\ worker[w].pc = "done"
    /\ worker' = [worker EXCEPT ![w].pc = "joined"]
    /\ outputs' = Append(outputs, [url |-> manifest[w], path |-> OutDir,
                                   result |-> worker[w].result])
    /\ failed' = IF worker[w].result # "Completed" THEN Append(failed, manifest[w]) ELSE failed
    /\ UNCHANGED <<manifest, intsLeft, chunkMax, opc, sent, queue, dbpc, hist>>

\* join_set.join_next() yields Some(Ok(output)), the WorkerOutput worker_fn
\* built: { url: entry.url, path: out_dir, result }.
JoinNext(w) ==
    /\ opc = "loop"
    /\ worker[w].pc = "done"
    /\ worker' = [worker EXCEPT ![w].pc = "joined"]
    /\ outputs' = Append(outputs, [url |-> manifest[w], path |-> OutDir,
                                   result |-> worker[w].result])
    /\ failed' = IF IsErr(worker[w].result) THEN Append(failed, manifest[w]) ELSE failed
    /\ UNCHANGED <<manifest, intsLeft, chunkMax, opc, sent, queue, dbpc, hist>>

\* join_set.join_next() yields Some(Err(error)): the task panicked.  The
\* JoinError is logged ("Download task failed"); nothing is pushed to
\* `failed`, and the loop goes on.
JoinNextErr(w) ==
    /\ opc = "loop"
    /\ worker[w].pc = "panicked"
    /\ worker' = [worker EXCEPT ![w].pc = "joined"]
    /\ UNCHANGED <<manifest, intsLeft, chunkMax, opc, failed, outputs, sent, queue, dbpc, hist>>

\* join_set.join_next() yields None: break.
JoinNone ==
    /\ opc = "loop"
    /\ \A w \in 1..N : worker[w].pc = "joined"
    /\ opc' = "await_db"
    /\ UNCHANGED <<manifest, intsLeft, chunkMax, failed, outputs, sent, worker, queue, dbpc, hist>>

\* Some(_) = ctrl_c_stream.recv(): sender.send(CancelMessage)?.  The send
\* fails when no receiver is alive, and `?` returns the error from exec.
CtrlC ==
    /\ opc = "loop"
    /\ intsLeft > 0
    /\ intsLeft' = intsLeft - 1
    /\ IF Receivers = {}
       THEN opc' = "error" /\ sent' = sent
       ELSE opc' = opc /\ sent' = sent + 1
    /\ UNCHANGED <<manifest, chunkMax, failed, outputs, worker, queue, dbpc, hist>>

\* db_task_handle.await.wrap_err("database task panicked")?; Ok(())
AwaitDbTask ==
    /\ opc = "await_db"
    /\ dbpc \in {"stopped", "dead"}
    /\ opc' = IF dbpc = "stopped" THEN "done" ELSE "error"
    /\ UNCHANGED <<manifest, intsLeft, chunkMax, failed, outputs, sent, worker, queue, dbpc, hist>>

\* ---------------------------------------------------------------- Worker
\* The terminal state worker_impl records for the engine's result.
TerminalState(res) ==
    CASE res = "Completed" -> "Completed"
      [] res = "Cancelled" -> "Interrupted"
      [] OTHER -> "Failed"

\* The state the update at pc sends.
StateAt(r) == IF r.pc = "dl_send" THEN "Downloading" ELSE TerminalState(r.res)

\* Mutant of AfterSend: update_state returns once the message is queued,
\* without awaiting the acknowledgement.
AfterSend_NoAck(r) ==
    [r EXCEPT !.pc = IF r.pc = "dl_send" THEN "request" ELSE "term_ack",
              !.ack = IF r.pc = "dl_send" THEN "none" ELSE "pending",
              !.issued = Append(@, StateAt(r))]

\* The message is queued: update_state goes on to await its acknowledgement.
AfterSend(r) ==
    [r EXCEPT !.pc = IF r.pc = "dl_send" THEN "dl_ack" ELSE "term_ack",
              !.ack = "pending",
              !.issued = Append(@, StateAt(r))]

\* update_state, first await: self.sender.send(UpdateState(..)).await.
\* It fails with DbTaskDead when the actor's receiver is gone, and `?` makes
\* `op` return the error; it waits while the queue is full.
UpdateStateSend(w) ==
    LET r == worker[w] IN
    /\ r.pc \in {"dl_send", "term_send"}
    /\ IF dbpc # "running"
       THEN /\ SetWorker(w, Return(r, "ErrDb"))
            /\ queue' = queue
       ELSE /\ Len(queue) < DbQueueCapacity
            /\ queue' = Append(queue, [w |-> w, url |-> manifest[w], state |-> StateAt(r)])
            /\ SetWorker(w, AfterSend(r))
    /\ UNCHANGED <<manifest, intsLeft, chunkMax, opc, failed, outputs, sent, dbpc, hist>>

\* What `op` does once the Downloading update is acknowledged.
AfterDownloading(r) == [r EXCEPT !.pc = "request", !.ack = "none"]

\* update_state, second await: receiver.await.  Acknowledged: `op` goes on
\* (to download_url_to, or it returns res); the oneshot dropped: DbTaskDead.
UpdateStateAck(w) ==
    LET r == worker[w] IN
    /\ r.pc \in {"dl_ack", "term_ack"}
    /\ r.ack \in {"acked", "dropped"}
    /\ SetWorker(w, IF r.ack = "dropped" THEN Return([r EXCEPT !.ack = "none"], "ErrDb")
                    ELSE IF r.pc = "dl_ack" THEN AfterDownloading(r)
                    ELSE Return([r EXCEPT !.ack = "none"], r.res))
    /\ UNCHANGED <<manifest, intsLeft, chunkMax, opc, failed, outputs, sent, queue, dbpc, hist>>

\* Ok(_) = receiver.recv() is polled while `op` is pending.
WorkerRecv(w) ==
    /\ worker[w].pc \in Running
    /\ ~worker[w].lagged
    /\ worker[w].rxpos < sent
    /\ worker' = [worker EXCEPT ![w] = PollRecv(worker[w])]
    /\ UNCHANGED <<manifest, intsLeft, chunkMax, opc, failed, outputs, sent, queue, dbpc, hist>>

\* The worker task panics at one of its awaits: the task ends with a
\* JoinError and everything it owns (the broadcast receiver, the database
\* handle, the oneshot, the file handle) is dropped.
WorkerPanics(w) ==
    /\ worker[w].pc \in Running
    /\ worker' = [worker EXCEPT ![w].pc = "panicked",
                                ![w].result = "JoinError",
                                ![w].cancel_rx = "dropped",
                                ![w].file = IF @ = "open" THEN "closed" ELSE @]
    /\ UNCHANGED <<manifest, intsLeft, chunkMax, opc, failed, outputs, sent, queue, dbpc, hist>>

\* -------------------------------------------------------- Transfer Engine
\* download_url_to returns x: its locals (the file handle, the cancel
\* receiver) are dropped and `op` goes on to the terminal update.
EngineReturn(r, x) ==
    [r EXCEPT !.res = x, !.pc = "term_send", !.cancel_rx = "dropped",
              !.file = IF @ = "open" THEN "closed" ELSE @]

\* client.get(url).send().await?
Request(w) ==
    LET r == worker[w] IN
    /\ r.pc = "request"
    /\ ~r.hung
    /\ \E ok \in BOOLEAN :
        SetWorker(w, IF ok THEN [r EXCEPT !.pc = "create"]
                     ELSE EngineReturn(r, "ErrTransfer"))
    /\ UNCHANGED <<manifest, intsLeft, chunkMax, opc, failed, outputs, sent, queue, dbpc, hist>>

\* fs_err::tokio::File::create(path).await?  (the interval's first tick is
\* consumed at once).  Creating a file at the path of the directory fails.
FileCreate(w) ==
    LET r == worker[w] IN
    /\ r.pc = "create"
    /\ \E ok \in BOOLEAN :
        /\ ok => r.out_path # OutDir
        /\ SetWorker(w, IF ok THEN [r EXCEPT !.pc = "loop", !.file = "open"]
                     ELSE EngineReturn(r, "ErrTransfer"))
    /\ UNCHANGED <<manifest, intsLeft, chunkMax, opc, failed, outputs, sent, queue, dbpc, hist>>

\* stream.next() yields Some(Ok(bytes)): f.write_all_buf(&mut bytes).await?
\* The write waits for the write in flight, then hands the chunk to the file.
StreamChunk(w) ==
    LET r == worker[w] IN
    /\ r.pc = "loop"
    /\ ~r.hung
    /\ r.chunks < chunkMax
    /\ \E ok \in BOOLEAN :
        SetWorker(w, IF ok THEN [r EXCEPT !.chunks = @ + 1,
                                          !.disk = @ \o r.buf,
                                          !.buf = <<r.chunks + 1>>]
                     ELSE EngineReturn([r EXCEPT !.chunks = @ + 1], "ErrTransfer"))
    /\ UNCHANGED <<manifest, intsLeft, chunkMax, opc, failed, outputs, sent, queue, dbpc, hist>>

\* stream.next() yields Some(Err(error)): return Err(error.into())
StreamError(w) ==
    LET r == worker[w] IN
    /\ r.pc = "loop"
    /\ ~r.hung
    /\ SetWorker(w, EngineReturn(r, "ErrTransfer"))
    /\ UNCHANGED <<manifest, intsLeft, chunkMax, opc, failed, outputs, sent, queue, dbpc, hist>>

\* stream.next() yields None: return Ok(WorkerStatus::Completed)
StreamEnd(w) ==
    LET r == worker[w] IN
    /\ r.pc = "loop"
    /\ ~r.hung
    /\ SetWorker(w, EngineReturn(r, "Completed"))
    /\ UNCHANGED <<manifest, intsLeft, chunkMax, opc, failed, outputs, sent, queue, dbpc, hist>>

\* Mutant of Shutdown: the cancellation branch returns without f.shutdown().
Shutdown_NoFlush(r, ok) ==
    EngineReturn([r EXCEPT !.cancelled = TRUE], "Cancelled")

\* The engine's cancellation branch: f.shutdown().await? waits for the write
\* in flight and flushes; then return Ok(WorkerStatus::Cancelled).
Shutdown(r, ok) ==
    IF ok THEN EngineReturn([r EXCEPT !.cancelled = TRUE, !.flushed = TRUE,
                                      !.disk = @ \o r.buf, !.buf = <<>>], "Cancelled")
    ELSE EngineReturn([r EXCEPT !.cancelled = TRUE], "ErrTransfer")

\* Ok(_) = &mut cancel_receiver
CancelReceived(w) ==
    LET r == worker[w] IN
    /\ r.pc = "loop"
    /\ r.cancel_rx = "set"
    /\ \E ok \in BOOLEAN : SetWorker(w, Shutdown(r, ok))
    /\ UNCHANGED <<manifest, intsLeft, chunkMax, opc, failed, outputs, sent, queue, dbpc, hist>>

\* _ = interval.tick(): the progress line is logged and no state changes; the
\* branch is a stuttering step of Spec.

\* The network stops answering: the request is never answered, or no further
\* chunk (and no end of stream) ever arrives.
NetHang(w) ==
    /\ worker[w].pc \in {"request", "loop"}
    /\ ~worker[w].hung
    /\ worker' = [worker EXCEPT ![w].hung = TRUE]
    /\ UNCHANGED <<manifest, intsLeft, chunkMax, opc, failed, outputs, sent, queue, dbpc, hist>>

\* tokio's blocking pool completes the write in flight (also after the file
\* handle was dropped).
FileWriteBack(w) ==
    /\ worker[w].buf # <<>>
    /\ worker' = [worker EXCEPT ![w].disk = @ \o worker[w].buf, ![w].buf = <<>>]
    /\ UNCHANGED <<manifest, intsLeft, chunkMax, opc, failed, outputs, sent, queue, dbpc, hist>>

\* ----------------------------------------------------- State Store Actor
\* Mutant of SendersAlive: the workers' clones of the handle do not keep the
\* channel open; only exec's db_handle does.
SendersAlive_OnlyExec == opc = "spawn"

\* Mutant of SendersAlive: exec keeps its db_handle to the end instead of
\* dropping it before the wait loop.
SendersAlive_ExecKeepsHandle ==
    opc \in {"spawn", "loop", "await_db"} \/ \E w \in 1..N : worker[w].pc \in Running

\* mpsc senders alive: exec's db_handle until it is dropped, and one clone per
\* spawned worker until worker_impl returns.
SendersAlive == opc = "spawn" \/ \E w \in 1..N : worker[w].pc \in Running

\* The url -> state mapping DatabaseTask holds.  The struct has one field,
\* `receiver`, and run() only logs an update before it acknowledges it
\* ("This is where you'd write to a file if desired"): nothing is stored, in
\* any state.
StoredStates == [u \in {} |-> "Downloading"]

\* self.receiver.recv() yields Some(UpdateState(url, state, sender)): the
\* update is logged and the acknowledgement sent.
DbRecvUpdate ==
    /\ dbpc = "running"
    /\ queue # <<>>
    /\ LET m == Head(queue) IN
        /\ hist' = [hist EXCEPT ![m.url] = Append(@, m.state)]
        /\ worker' = [worker EXCEPT ![m.w].ack = "acked",
                                    ![m.w].recorded = Append(@, m.state)]
    /\ queue' = Tail(queue)
    /\ UNCHANGED <<manifest, intsLeft, chunkMax, opc, failed, outputs, sent, dbpc>>

\* self.receiver.recv() yields None: every sender is dropped and the queue
\* is empty; break.
DbRecvNone ==
    /\ dbpc = "running"
    /\ queue = <<>>
    /\ ~SendersAlive
    /\ dbpc' = "stopped"
    /\ UNCHANGED <<manifest, intsLeft, chunkMax, opc, failed, outputs, sent, worker, queue, hist>>

\* The database task dies (db.rs: "if the download task dies for some
\* reason"): its receiver and the queued messages, with their oneshot
\* senders, are dropped.
DbTaskDies ==
    /\ dbpc = "running"
    /\ dbpc' = "dead"
    /\ queue' = <<>>
    /\ worker' = [w \in DOMAIN worker |->
                    IF worker[w].ack = "pending"
                    THEN [worker[w] EXCEPT !.ack = "dropped"] ELSE worker[w]]
    /\ UNCHANGED <<manifest, intsLeft, chunkMax, opc, failed, outputs, sent, hist>>

\* ------------------------------------------------------- specifications
WorkerStep(w) ==
    \/ UpdateStateSend(w)
    \/ UpdateStateAck(w)
    \/ WorkerRecv(w)
    \/ Request(w)
    \/ FileCreate(w)
    \/ StreamChunk(w)
    \/ StreamError(w)
    \/ StreamEnd(w)
    \/ CancelReceived(w)

Next ==
    \/ Spawn
    \/ DropDbHandle
    \/ \E w \in 1..N : JoinNext(w)
    \/ JoinNone
    \/ CtrlC
    \/ AwaitDbTask
    \/ \E w \in 1..N : UpdateStateSend(w)
    \/ \E w \in 1..N : UpdateStateAck(w)
    \/ \E w \in 1..N : WorkerRecv(w)
    \/ \E w \in 1..N : Request(w)
    \/ \E w \in 1..N : FileCreate(w)
    \/ \E w \in 1..N : StreamChunk(w)
    \/ \E w \in 1..N : StreamError(w)
    \/ \E w \in 1..N : StreamEnd(w)
    \/ \E w \in 1..N : CancelReceived(w)
    \/ \E w \in 1..N : NetHang(w)
    \/ \E w \in 1..N : FileWriteBack(w)
    \/ DbRecvUpdate
    \/ DbRecvNone

Spec == Init /\ [][Next]_vars

\* Runs in which the database task may die.
NextFault == Next \/ DbTaskDies
FaultSpec == InitWith(Manifests(MaxTasks), 1, MaxChunks) /\ [][NextFault]_vars

\* Runs in which a worker task may panic.
NextPanic ==
    \/ Next
    \/ \E w \in 1..N : WorkerPanics(w)
    \/ \E w \in 1..N : JoinNextErr(w)
PanicSpec == InitWith(Manifests(MaxTasks), 1, MaxChunks) /\ [][NextPanic]_vars

\* The tokio scheduler polls every task that can move; the network and the
\* interrupt source owe nothing.
Fairness ==
    /\ WF_vars(Spawn) /\ WF_vars(DropDbHandle) /\ WF_vars(JoinNone) /\ WF_vars(AwaitDbTask)
    /\ WF_vars(DbRecvUpdate) /\ WF_vars(DbRecvNone)
    /\ \A w \in 1..MaxTasks :
        /\ WF_vars(w \in 1..N /\ JoinNext(w))
        /\ WF_vars(w \in 1..N /\ WorkerStep(w))
        /\ WF_vars(w \in 1..N /\ FileWriteBack(w))

\* One download, of any of the entries of Entries.
PathInit ==
    /\ manifest = <<"u1">>
    /\ intsLeft = 1
    /\ chunkMax = MaxChunks
    /\ opc = "spawn"
    /\ failed = <<>>
    /\ outputs = <<>>
    /\ sent = 0
    /\ worker \in {<<[NewWorker EXCEPT !.entry = e]>> : e \in Entries}
    /\ queue = <<>>
    /\ dbpc = "running"
    /\ hist = [u \in Urls |-> <<>>]
PathSpec == PathInit /\ [][Next]_vars

\* One download, fairly scheduled.
FairSpec == InitWith(Manifests(1), MaxInterrupts, MaxChunks + 1) /\ [][Next]_vars /\ Fairness

\* One download and one interrupt more than the broadcast channel holds.
LagSpec == InitWith({<<"u1">>}, BroadcastCapacity + 1, MaxChunks) /\ [][Next]_vars /\ Fairness

\* ================================================================ claims
Count(seq, x) == Cardinality({i \in DOMAIN seq : seq[i] = x})
OutputUrls == [i \in DOMAIN outputs |-> outputs[i].url]
ExecReturned == opc \in {"done", "error"}
W == 1..MaxTasks
Has(w) == w \in DOMAIN worker

\* C1: when exec has returned, the wait loop has consumed exactly one
\* WorkerOutput per manifest entry, and the consumed urls are the manifest's
\* urls, each as often as the manifest names it.
C1_EveryOutcomeConsumed ==
    ExecReturned =>
        /\ Len(outputs) = N
        /\ \A u \in Urls : Count(OutputUrls, u) = Count(manifest, u)

\* C2: every interrupt the wait loop receives publishes one CancelMessage
\* and leaves exec in the wait loop; exec never returns an error.
C2_InterruptKeepsWaiting ==
    [][intsLeft' # intsLeft => (sent' = sent + 1 /\ opc' = "loop")]_vars

\* C3: for every url, the updates the database task has processed are a
\* prefix of [Downloading, T] with T terminal, and the whole of it once
\* exec has returned Ok.
C3_PerUrlSequence ==
    \A u \in Urls :
        /\ Len(hist[u]) <= 2
        /\ Len(hist[u]) >= 1 => hist[u][1] = "Downloading"
        /\ Len(hist[u]) = 2 => hist[u][2] \in Terminal
        /\ (opc = "done" /\ Count(manifest, u) > 0) => Len(hist[u]) = 2

\* The terminal state the claims name for an engine result.
Recorded(res, st) ==
    \/ res = "Completed" /\ st = "Completed"
    \/ res = "Cancelled" /\ st = "Interrupted"
    \/ res = "ErrTransfer" /\ st = "Failed"

\* C4: a worker that has returned ran the engine, sent exactly the two
\* updates Downloading and the terminal state of the engine's result, had
\* both processed and acknowledged, and returns the engine's result; no
\* worker ever sends a third update.
C4_TerminalUpdateBeforeReturn ==
    \A w \in W : Has(w) =>
        LET r == worker[w] IN
        /\ Len(r.issued) <= 2
        /\ r.pc \in Finished =>
            /\ r.res # "none"
            /\ Len(r.issued) = 2
            /\ r.issued[1] = "Downloading"
            /\ Recorded(r.res, r.issued[2])
            /\ r.recorded = r.issued
            /\ r.ack = "none"
            /\ r.result = r.res

\* C4 witness: a worker has returned after observing two notifications, its
\* transfer cancelled and Interrupted recorded.
C4_Witness ==
    \E w \in W : Has(w) /\ worker[w].pc \in Finished /\ worker[w].rxpos = 2
                 /\ worker[w].res = "Cancelled"
                 /\ worker[w].recorded = <<"Downloading", "Interrupted">>

\* C5: a published signal that a worker has not yet observed while its
\* transfer is running leads to that worker triggering its cancellation
\* token.
C5_SignalReachesRunningTransfer ==
    \A w \in W :
        (Has(w) /\ worker[w].pc \in InEngine /\ worker[w].rxpos < sent /\ ~worker[w].lagged)
            ~> (Has(w) /\ ~worker[w].cancel_sender)

\* C6: a worker that observed a notification after its engine returned
\* sends no other terminal update than the one of the engine's result, sends
\* it once, and returns the engine's result; the token was not delivered.
C6_LateNotificationIsNoOp ==
    \A w \in W : (Has(w) /\ worker[w].late) =>
        LET r == worker[w] IN
        /\ r.res # "none"
        /\ r.cancel_rx = "dropped"
        /\ Len(r.issued) <= 2
        /\ Len(r.issued) = 2 => Recorded(r.res, r.issued[2])
        /\ r.pc \in Finished =>
            /\ r.result = r.res
            /\ Len(r.recorded) = 2
            /\ Recorded(r.res, r.recorded[2])

\* C6 witness: a transfer that finished, then a notification, and Completed
\* returned and recorded all the same.
C6_Witness ==
    \E w \in W : Has(w) /\ worker[w].late /\ worker[w].pc = "joined"
                 /\ worker[w].result = "Completed"
                 /\ worker[w].recorded = <<"Downloading", "Completed">>

NoCompleted(seq) == \A i \in DOMAIN seq : seq[i] # "Completed"

\* C7 (as claimed): once the engine took its cancellation branch the file is
\* flushed and closed, the engine returned Cancelled, the terminal state of
\* the download is Interrupted, and Completed is never recorded.
C7_CancelBranchRecordsInterrupted ==
    \A w \in W : (Has(w) /\ worker[w].cancelled) =>
        LET r == worker[w] IN
        /\ r.flushed /\ r.buf = <<>> /\ r.file = "closed"
        /\ r.res = "Cancelled"
        /\ Len(r.issued) = 2 => r.issued[2] = "Interrupted"
        /\ r.pc \in Finished => r.recorded = <<"Downloading", "Interrupted">>
        /\ NoCompleted(r.issued)

\* C7 (amended): once the engine took its cancellation branch the file is
\* closed and Completed is never recorded; when the flush succeeded every
\* chunk received is in the file, the engine returned Cancelled and the
\* terminal state is Interrupted; when the flush failed the engine returned
\* the error and the terminal state is Failed.
C7_CancelBranchAmended ==
    \A w \in W : (Has(w) /\ worker[w].cancelled) =>
        LET r == worker[w] IN
        /\ r.file = "closed"
        /\ NoCompleted(r.issued)
        /\ IF r.flushed
           THEN /\ r.res = "Cancelled"
                /\ r.buf = <<>>
                /\ r.disk = [i \in 1..r.chunks |-> i]
                /\ Len(r.issued) = 2 => r.issued[2] = "Interrupted"
                /\ r.pc \in Finished => r.recorded = <<"Downloading", "Interrupted">>
           ELSE /\ r.res = "ErrTransfer"
                /\ Len(r.issued) = 2 => r.issued[2] = "Failed"
                /\ r.pc \in Finished => r.recorded = <<"Downloading", "Failed">>

\* C7 witness: a transfer cancelled after its chunk, the chunk in the file,
\* Interrupted recorded.
C7_Witness ==
    \E w \in W : Has(w) /\ worker[w].cancelled /\ worker[w].flushed
                 /\ worker[w].disk = <<1>> /\ worker[w].pc \in Finished
                 /\ worker[w].recorded = <<"Downloading", "Interrupted">>

\* C8: a worker whose network operation hangs while a cancellation is
\* published for it eventually returns.
C8_CancelEndsHungTransfer ==
    \A w \in W :
        (Has(w) /\ worker[w].hung /\ worker[w].pc \in InEngine /\ worker[w].rxpos < sent)
            ~> (Has(w) /\ worker[w].pc \in Finished)

\* The engine of w has started: the request is being sent, or it returned.
Started(r) == r.pc \in InEngine \/ r.res # "none"

\* C9: the engine starts only after the Downloading update was processed
\* and acknowledged, the terminal update is sent only after the engine
\* returned, and a worker whose Downloading update failed never started the
\* engine.
C9_UpdatesOrderedAroundTransfer ==
    \A w \in W : Has(w) =>
        LET r == worker[w] IN
        /\ (Started(r) \/ r.file # "none" \/ r.chunks > 0) =>
            (r.recorded # <<>> /\ r.recorded[1] = "Downloading")
        /\ r.pc \in InEngine => (r.issued = <<"Downloading">> /\ r.ack = "none")
        /\ Len(r.issued) >= 2 =>
            (r.res # "none" /\ r.pc \notin InEngine /\ r.issued[2] \in Terminal)
        /\ (r.pc \in Finished /\ r.recorded = <<>>) =>
            (r.result = "ErrDb" /\ ~Started(r) /\ r.file = "none" /\ r.chunks = 0)

\* C9 witness: one download went through both updates around its transfer,
\* another one's Downloading update failed and it never started.
C9_Witness ==
    \E w, v \in W :
        /\ Has(w) /\ Has(v)
        /\ worker[w].recorded = <<"Downloading", "Completed">> /\ worker[w].chunks = 1
        /\ worker[v].pc \in Finished /\ worker[v].result = "ErrDb"
        /\ worker[v].recorded = <<>> /\ worker[v].res = "none"

\* C10: when a worker returned an error, its transfer error is recorded as
\* Failed, and exec, once returned, returned Ok with every worker joined
\* and the url in `failed`.
C10_ErrorIsContained ==
    \A w \in W : (Has(w) /\ IsErr(worker[w].result)) =>
        LET r == worker[w] IN
        /\ r.res = "ErrTransfer" => r.recorded = <<"Downloading", "Failed">>
        /\ ExecReturned =>
            /\ opc = "done"
            /\ \A v \in 1..N : worker[v].pc = "joined"
            /\ Count(failed, manifest[w]) >= 1

\* Workers whose worker_impl returned one of the results in rs, for url u.
WorkersWith(u, rs) == {w \in 1..N : manifest[w] = u /\ worker[w].result \in rs}
LoopExited == opc \in {"await_db", "done"}

C12_ActorStopsOnceHandlesDropped ==
    /\ [](dbpc = "stopped" =>
            /\ queue = <<>>
            /\ \A w \in W : Has(w) => worker[w].recorded = worker[w].issued)
    /\ (~SendersAlive) ~> (dbpc = "stopped")
    /\ (opc = "await_db") ~> (opc = "done")

\* exec returned Ok after the actor processed both updates of the download
\* and stopped.
C12_Witness ==
    /\ opc = "done"
    /\ dbpc = "stopped"
    /\ N = 1
    /\ Len(worker[1].recorded) = 2

\* A run without interrupt or error: exec returned Ok, no CancelMessage was
\* sent, the manifest names each url once and every worker returned Completed.
CleanRun ==
    /\ opc = "done"
    /\ sent = 0
    /\ \A u \in Urls : Count(manifest, u) <= 1
    /\ \A w \in 1..N : worker[w].result = "Completed"

\* C13: after a run of N distinct urls without interrupt or error, the
\* mapping the actor holds has exactly the N urls as its entries, each in
\* state Completed.
C13_MappingHoldsCompleted ==
    CleanRun =>
        /\ DOMAIN StoredStates = {manifest[w] : w \in 1..N}
        /\ \A u \in DOMAIN StoredStates : StoredStates[u] = "Completed"

\* C14: once the engine has returned Completed, the destination file holds
\* every chunk received, once and in order, and no chunk is still in the file
\* handle's buffer waiting to be written.
C14_CompletedFileIsWhole ==
    \A w \in W :
        (Has(w) /\ worker[w].res = "Completed") =>
            /\ worker[w].buf = <<>>
            /\ worker[w].disk = [i \in 1..worker[w].chunks |-> i]

\* C15: the destination of a task with a file_name is out_dir joined with
\* that name, whatever the url; without one it is out_dir joined with the
\* url's last path segment when that is not empty, and out_dir/index.html
\* when the url has no such segment (empty path, or path ending in '/').
C15_DestinationResolution ==
    \A w \in W :
        (Has(w) /\ worker[w].pc # "unspawned") =>
            LET e == worker[w].entry
                segs == IF e.path_segments = <<>> THEN <<>> ELSE e.path_segments[1]
                named == segs # <<>> /\ segs[Len(segs)] # ""
            IN worker[w].out_path =
                   IF e.file_name # <<>> THEN Append(OutDir, e.file_name[1])
                   ELSE IF named THEN Append(OutDir, segs[Len(segs)])
                   ELSE Append(OutDir, "index.html")

\* C17: every WorkerOutput the wait loop consumes carries the url of its
\* task and the destination path that task resolved.
C17_OutputCarriesDestination ==
    \A i \in DOMAIN outputs :
        \E w \in 1..N :
            /\ worker[w].pc = "joined"
            /\ outputs[i].url = manifest[w]
            /\ outputs[i].path = worker[w].out_path

\* C16: a worker calls send on its oneshot at most once: the first
\* notification it observes takes cancel_sender and sends, and from then on
\* cancel_sender is None, so a later notification sends nothing.
C16_TokenTriggeredAtMostOnce ==
    \A w \in W :
        Has(w) =>
            /\ worker[w].triggers <= 1
            /\ worker[w].triggers = 1 <=> ~worker[w].cancel_sender
            /\ (worker[w].rxpos >= 1 /\ ~worker[w].lagged) => worker[w].triggers = 1

\* A worker that observed two notifications while its transfer was still
\* running and triggered its token once.
C16_Witness ==
    \E w \in 1..N :
        /\ worker[w].rxpos = 2
        /\ worker[w].triggers = 1
        /\ worker[w].pc = "loop"
        /\ worker[w].cancel_rx = "set"

\* C18: while a worker_impl is running the actor has not stopped; when it
\* stops, every update a worker sent was processed and acknowledged; and no
\* update_state fails with DbTaskDead.
C18_ActorOutlivesWorkers ==
    /\ dbpc = "stopped" =>
        /\ queue = <<>>
        /\ \A w \in W : Has(w) =>
            /\ worker[w].pc \notin Running
            /\ worker[w].recorded = worker[w].issued
            /\ worker[w].ack # "pending"
    /\ \A w \in W : Has(w) =>
        /\ worker[w].result # "ErrDb"
        /\ worker[w].ack # "dropped"

\* The actor stopped, before exec left the wait loop, after it processed
\* both updates of each of two downloads.
C18_Witness ==
    /\ dbpc = "stopped"
    /\ opc = "loop"
    /\ N = 2
    /\ \A w \in 1..N : Len(worker[w].recorded) = 2

\* worker_impl returned after `op` ran to its end: the terminal update was
\* issued and acknowledged, or an update_state failed.
OpReturned(r) ==
    /\ r.pc \in Finished
    /\ \/ r.result = "ErrDb"
       \/ r.res # "none" /\ Len(r.issued) = 2 /\ r.result = r.res

\* C19: once the workers are spawned, the broadcast channel has no receiver
\* only when every worker_impl has returned from `op`; so a publish that
\* failed (exec returned the SendError) found no download in flight.
C19_NoReceiverOnlyAfterAllReturned ==
    /\ (opc # "spawn" /\ Receivers = {}) => \A w \in W : Has(w) => OpReturned(worker[w])
    /\ opc = "error" => \A w \in W : Has(w) => OpReturned(worker[w])

\* A publish failed for lack of receivers after both downloads had returned,
\* one of them Completed; the actor had not died.
C19_Witness ==
    /\ opc = "error"
    /\ dbpc # "dead"
    /\ N = 2
    /\ worker[1].result = "Completed"
    /\ worker[2].pc = "done"

\* Some transfer never ends: the network stopped answering it.
SomeHung == \E w \in 1..N : worker[w].hung

\* Every worker returned and was joined, the wait loop ended with
\* join_next() = None, the actor stopped and exec returned Ok.
Drained ==
    /\ opc = "done"
    /\ dbpc = "stopped"
    /\ Len(outputs) = N
    /\ \A w \in 1..N : worker[w].pc = "joined"

\* C20: under fair scheduling, unless some transfer never ends, every run
\* reaches the state in which every worker has returned, the wait loop has
\* drained and the actor has shut down.
C20_EveryRunDrains == <>(SomeHung \/ Drained)
====
